---- MODULE Spec2Model ----
(***************************************************************************)
(* @supercharge/fs.                                                        *)
(*                                                                         *)
(* File locking: lock, unlock, isLocked and isNotLocked of                 *)
(* src/src/filesystem.ts, together with the parts of proper-lockfile       *)
(* (~4.1.2, src/package.json) they delegate to: check, lock/acquireLock,   *)
(* unlock/removeLock and the mtime update timer.                           *)
(*                                                                         *)
(* The marker of a path P is the directory P.lock.  Time is kept as ages:  *)
(* marker[p] is Date.now() - mtime of the marker, so the library's test    *)
(*   stat.mtime.getTime() < Date.now() - options.stale                     *)
(* reads  age > stale.  The clock advances in steps of TickMs.             *)
(*                                                                         *)
(* Further helpers, each with a specification of its own: random() of      *)
(* src/src/helper.ts; tempPath, tempDir, tempFile, updateTimestamps,       *)
(* isEmptyDir, append and appendLine of src/src/filesystem.ts; and the     *)
(* FileSizeResolver of src/src/file-size-resolver.ts.                      *)
(***************************************************************************)
EXTENDS Integers, FiniteSets, Sequences, TLC

\* ---- bounds ------------------------------------------------------------
TickMs == 1000
MaxTicks == 11
SmallStale == 50
MaxRetries == 2
PatternLen == 2
MaxAppends == 2

\* ---- constants of proper-lockfile ---------------------------------------
DefaultStale == 10000
MinStale == 2000
MinUpdate == 1000

MaxAge == MaxTicks * TickMs

\* two tasks of process A that await independently of each other
Callers == {"c1", "c2"}
Procs == {"A", "B"}
\* the callers are the async tasks of process A; process B is another program
\* using proper-lockfile on the same files
ProcOf(c) == "A"

\* "file" is on disk; "missing" is not, its directory is; "orphan" lies in a
\* directory that does not exist
Paths == {"file", "missing", "orphan"}
\* Fs.realpath(file) succeeds
pathExists(p) == p = "file"
\* the directory that would hold the marker of p exists
parentExists(p) == p # "orphan"

\* options objects: <<>> is `undefined`, <<s>> is { stale: s },
\* <<s, r>> is { stale: s, retries: r }
Options == {<<>>, <<SmallStale>>}
RetryOptions == {<<DefaultStale, MaxRetries>>}

NoMarker == -1
NoLock == [acquired |-> FALSE, mtime |-> 0, update |-> 0]

Max(a, b) == IF a >= b THEN a ELSE b
Min(a, b) == IF a <= b THEN a ELSE b

VARIABLES
  marker,   \* marker[p]: NoMarker, or the age in ms of the directory p.lock
  locks,    \* locks[pr][p]: the in-memory `locks` registry of process pr
  alive,    \* alive[pr]: process pr is running
  pc,       \* pc[c]: the suspension point caller c is at
  op,       \* op[c]: the method caller c called last
  file,     \* file[c]: its `file` argument
  options,  \* options[c]: its `options` argument
  result,   \* result[c]: how the call settled
  ownAtCheck, \* ownAtCheck[c]: unlock's isLocked saw a lock the caller's process owns
  rival,    \* rival[c]: while c's lock is in flight another caller created the
            \* marker and has not released it
  held,     \* held[p]: callers whose lock(p) returned and who have not called unlock(p)
  owners,   \* owners[p]: callers whose Lockfile.lock(p) resolved and was not released
  attempts, \* attempts[c]: retries the `retry` operation of c's Lockfile.lock has made
  entropy,  \* the bytes the random source hands out, repeated as often as needed
  name,     \* the string the last call of random() returned, <<>> before it
  tmp,      \* tmp[d]: the files in directory d of Os.tmpdir(); DOMAIN tmp are its directories
  temp,     \* the last call of tempPath, tempDir or tempFile: its argument and result
  stamps,   \* stamps[p]: the access and modification time of the file p
  stampCall, \* the last call of updateTimestamps: its arguments and how it settled
  emptyDir, \* the last call of isEmptyDir: its argument and how it settled
  text,     \* the file appended to: whether it exists, and the chunks written to it in order
  writer,   \* writer[c]: the append or appendLine call of caller c
  metric,   \* the field `metric` of the file-size resolver
  fileSize, \* the size of the resolver's file in bytes, NoSize when Fs.stat fails
  chosen,   \* a metric was chosen on the resolver since it was constructed
  task      \* task[c]: what caller c awaits on the resolver

nameVars == <<entropy, name>>

lockVars == <<marker, locks, alive, pc, op, file, options, result, ownAtCheck, rival, held,
              owners, attempts>>

tempVars == <<tmp, temp>>
stampVars == <<stamps, stampCall>>
dirVars == <<emptyDir>>
appendVars == <<text, writer>>
sizeVars == <<metric, fileSize, chosen, task>>

\* the state of the helpers that do not take part in locking
fsVars == <<tempVars, stampVars, dirVars, appendVars, sizeVars>>

vars == <<marker, locks, alive, pc, op, file, options, result, ownAtCheck, rival, held, owners,
          attempts, entropy, name, fsVars>>

\* ---- proper-lockfile: option normalisation ------------------------------
\* the stale option as the caller configured it, 10000 when it is not given
configuredStale(o) == IF o = <<>> THEN DefaultStale ELSE o[1]

\* (variant) the threshold without the lower limit of 2000 ms
staleOfUnclamped(o) == IF o = <<>> THEN DefaultStale ELSE o[1]

\* options.retries, 0 when it is not given
retriesOf(o) == IF Len(o) >= 2 THEN o[2] ELSE 0

\* options.stale = Math.max(options.stale || 0, 2000), default 10000
staleOf(o) == Max(IF o = <<>> THEN DefaultStale ELSE o[1], MinStale)

\* options.update = Math.max(Math.min(stale / 2, stale / 2), 1000)
updateOf(o) == Max(Min(staleOf(o) \div 2, staleOf(o) \div 2), MinUpdate)

\* (variant) a marker exactly as old as the threshold counts as stale
isLockStaleInclusive(age, stale) == age >= stale

\* isLockStale(stat, options): stat.mtime < Date.now() - options.stale
isLockStale(age, stale) == age > stale

\* (variant) Lockfile.check looks for the marker without resolving the file
checkWithoutRealpath(p, o) ==
  IF marker[p] = NoMarker THEN "false"
  ELSE IF isLockStale(marker[p], staleOf(o)) THEN "false"
  ELSE "true"

\* ---- proper-lockfile: check(file, options) ------------------------------
\* realpath fails with ENOENT; a missing marker is "not locked"; else !stale
check(p, o) ==
  IF ~pathExists(p) THEN "ENOENT"
  ELSE IF marker[p] = NoMarker THEN "false"
  ELSE IF isLockStale(marker[p], staleOf(o)) THEN "false"
  ELSE "true"

\* (variant) a rejection of Lockfile.check is caught and reported as "not locked"
isLockedCatchesError(p, o) == IF check(p, o) \in {"true", "false"} THEN check(p, o) ELSE "false"

\* ---- filesystem.ts: return await Lockfile.check(file, options) ----------
isLockedOutcome(p, o) == check(p, o)

\* (variant) the negation is left out
isNotLockedForgetsNegation(p, o) == isLockedOutcome(p, o)

\* (variant) a rejection of isLocked is swallowed and read as "not locked"
isNotLockedSwallowsError(p, o) == IF isLockedOutcome(p, o) = "true" THEN "false" ELSE "true"

\* ---- filesystem.ts: return !await this.isLocked(file, options) ----------
isNotLockedOutcome(p, o) ==
  IF isLockedOutcome(p, o) = "true" THEN "false"
  ELSE IF isLockedOutcome(p, o) = "false" THEN "true"
  ELSE isLockedOutcome(p, o)

Ages == {n * TickMs : n \in 0 .. MaxTicks}

TypeOK ==
  /\ marker \in [Paths -> {NoMarker} \cup Ages]
  /\ alive \in [Procs -> BOOLEAN]
  /\ pc \in [Callers -> {"idle", "mkdir", "stat", "rmdir", "mkdir2",
                         "release", "unlockRmdir", "dead"}]
  /\ op \in [Callers -> {"none", "lock", "unlock", "isLocked", "isNotLocked"}]
  /\ file \in [Callers -> Paths]
  /\ options \in [Callers -> Options \cup RetryOptions]
  /\ result \in [Callers -> {"none", "ok", "true", "false",
                             "ENOENT", "ELOCKED", "ENOTACQUIRED"}]
  /\ ownAtCheck \in [Callers -> BOOLEAN]
  /\ rival \in [Callers -> BOOLEAN]
  /\ held \in [Paths -> SUBSET Callers]
  /\ owners \in [Paths -> SUBSET Callers]
  /\ attempts \in [Callers -> 0 .. MaxRetries]
  /\ \A i \in DOMAIN entropy : entropy[i] \in 0 .. 255
  /\ \A i \in DOMAIN name : name[i] \in STRING

\* random() has not been called
NoName == entropy = <<0>> /\ name = <<>>

\* no temporary path has been asked for
NoTemp == tmp = <<>> /\ temp = [op |-> "none"]

\* values of `lastAccessed` and `lastModified`: Date objects and the numbers
\* Date.now() returns, each for a time in ms
Times == {1, 2, 3}
Date(t) == [type |-> "Date", time |-> t]
Number(t) == [type |-> "number", time |-> t]

\* updateTimestamps has not been called; the files were made at time 0
NoStamps ==
  /\ stamps = [p \in {q \in Paths : pathExists(q)} |-> [atime |-> 0, mtime |-> 0]]
  /\ stampCall = [op |-> "none"]

\* isEmptyDir has not been called
NoDir == emptyDir = [op |-> "none"]

\* the file does not exist
NoText == [exists |-> FALSE, chunks |-> <<>>]

\* nothing is being appended
NoAppend ==
  /\ text = NoText
  /\ writer = [c \in Callers |-> [pc |-> "idle", calls |-> 0]]

NoSize == -1

\* a promise that is not settled
Pending == [state |-> "pending"]
NoTask == [pc |-> "idle", op |-> "none", fresh |-> FALSE, result |-> Pending]

\* no file-size resolver is in use
NoResolver ==
  /\ metric = "bytes"
  /\ fileSize = NoSize
  /\ chosen = FALSE
  /\ task = [c \in Callers |-> NoTask]

\* the helpers outside locking have not been used
NoFiles == NoTemp /\ NoStamps /\ NoDir /\ NoAppend /\ NoResolver

\* no call has been made yet
InitCallers ==
  /\ pc = [c \in Callers |-> "idle"]
  /\ op = [c \in Callers |-> "none"]
  /\ file = [c \in Callers |-> "file"]
  /\ result = [c \in Callers |-> "none"]
  /\ ownAtCheck = [c \in Callers |-> FALSE]
  /\ rival = [c \in Callers |-> FALSE]
  /\ held = [p \in Paths |-> {}]
  /\ owners = [p \in Paths |-> {}]
  /\ attempts = [c \in Callers |-> 0]

\* process B may already hold the lock on "file"
Init ==
  /\ InitCallers
  /\ NoName
  /\ NoFiles
  /\ alive = [pr \in Procs |-> TRUE]
  /\ options = [c \in Callers |-> <<>>]
  /\ \E b \in BOOLEAN :
       /\ marker = [p \in Paths |-> IF b /\ p = "file" THEN 0 ELSE NoMarker]
       /\ locks = [pr \in Procs |-> [p \in Paths |->
                     IF b /\ pr = "B" /\ p = "file"
                       THEN [acquired |-> TRUE, mtime |-> 0, update |-> updateOf(<<>>)]
                       ELSE NoLock]]

\* a call starts: the arguments are stored, the previous result is dropped
Begin(c, o, p, opt) ==
  /\ pc[c] = "idle"
  /\ op' = [op EXCEPT ![c] = o]
  /\ file' = [file EXCEPT ![c] = p]
  /\ options' = [options EXCEPT ![c] = opt]

\* (variant) isLocked removes a marker it finds stale
isLockedRemovesStale(c, p, opt) ==
  /\ Begin(c, "isLocked", p, opt)
  /\ result' = [result EXCEPT ![c] = isLockedOutcome(p, opt)]
  /\ marker' = [marker EXCEPT ![p] =
                  IF pathExists(p) /\ @ # NoMarker /\ isLockStale(@, staleOf(opt))
                    THEN NoMarker ELSE @]
  /\ UNCHANGED <<locks, alive, pc, ownAtCheck, rival, held, owners, attempts, nameVars, fsVars>>

\* ---- filesystem.ts: isLocked(file, options) -----------------------------
isLocked(c, p, opt) ==
  /\ Begin(c, "isLocked", p, opt)
  /\ result' = [result EXCEPT ![c] = isLockedOutcome(p, opt)]
  /\ UNCHANGED <<marker, locks, alive, pc, ownAtCheck, rival, held, owners, attempts, nameVars, fsVars>>

\* ---- filesystem.ts: isNotLocked(file, options) --------------------------
isNotLocked(c, p, opt) ==
  /\ Begin(c, "isNotLocked", p, opt)
  /\ result' = [result EXCEPT ![c] = isNotLockedOutcome(p, opt)]
  /\ UNCHANGED <<marker, locks, alive, pc, ownAtCheck, rival, held, owners, attempts, nameVars, fsVars>>

\* ---- filesystem.ts: lock(file, options) ---------------------------------
\* if (await this.isNotLocked(file, options)) await Lockfile.lock(file, options)
\* (variant) lock goes to Lockfile.lock without looking at isNotLocked
lockGuardAlways(p, opt) == IF pathExists(p) THEN "true" ELSE "ENOENT"

\* (variant) lock calls Lockfile.lock unconditionally, without any check
lockGuardSkipsCheck(p, opt) == "true"

lockGuard(p, opt) == isNotLockedOutcome(p, opt)

lock(c, p, opt) ==
  /\ Begin(c, "lock", p, opt)
  /\ attempts' = [attempts EXCEPT ![c] = 0]
  /\ UNCHANGED <<marker, locks, alive, ownAtCheck, rival, owners, nameVars, fsVars>>
  /\ CASE lockGuard(p, opt) = "true" ->
            /\ pc' = [pc EXCEPT ![c] = "mkdir"]
            /\ result' = [result EXCEPT ![c] = "none"]
            /\ UNCHANGED held
       [] lockGuard(p, opt) = "false" ->
            /\ result' = [result EXCEPT ![c] = "ok"]
            /\ held' = [held EXCEPT ![p] = @ \cup {c}]
            /\ UNCHANGED pc
       [] OTHER ->
            /\ result' = [result EXCEPT ![c] = lockGuard(p, opt)]
            /\ UNCHANGED <<pc, held>>

InLock == {"mkdir", "stat", "rmdir", "mkdir2"}

\* the lock is ours: locks[file] = { mtime, options, ... }; updateLock(file)
Acquired(c) ==
  LET p == file[c]
      pr == ProcOf(c)
  IN
  /\ marker' = [marker EXCEPT ![p] = 0]
  /\ locks' = [locks EXCEPT ![pr][p] =
                 [acquired |-> TRUE, mtime |-> 0, update |-> updateOf(options[c])]]
  /\ pc' = [pc EXCEPT ![c] = "idle"]
  /\ result' = [result EXCEPT ![c] = "ok"]
  /\ held' = [held EXCEPT ![p] = @ \cup {c}]
  /\ owners' = [owners EXCEPT ![p] = @ \cup {c}]
  /\ rival' = [d \in Callers |->
                 d # c /\ (rival[d] \/ (pc[d] \in InLock /\ file[d] = p))]
  /\ UNCHANGED <<alive, op, file, options, ownAtCheck>>

\* the call rejects with the error `err`
Fail(c, err) ==
  /\ pc' = [pc EXCEPT ![c] = "idle"]
  /\ result' = [result EXCEPT ![c] = err]
  /\ ownAtCheck' = [ownAtCheck EXCEPT ![c] = FALSE]
  /\ rival' = [rival EXCEPT ![c] = FALSE]
  /\ UNCHANGED <<marker, locks, alive, op, file, options, held, owners>>

\* the call goes on to its next file system operation
Goto(c, l) ==
  /\ pc' = [pc EXCEPT ![c] = l]
  /\ UNCHANGED <<marker, locks, alive, op, file, options, result, ownAtCheck, rival, held, owners>>

\* ---- proper-lockfile: lock, operation.retry(err) of the `retry` package --
\* a failed attempt is repeated (after the backoff) while retries are left
Contended(c) ==
  IF attempts[c] < retriesOf(options[c])
    THEN /\ attempts' = [attempts EXCEPT ![c] = @ + 1]
         /\ Goto(c, "mkdir")
    ELSE /\ Fail(c, "ELOCKED")
         /\ UNCHANGED attempts

\* ---- proper-lockfile: acquireLock, fs.mkdir(lockfilePath) ---------------
acquireMkdir(c) ==
  /\ pc[c] = "mkdir"
  /\ IF marker[file[c]] = NoMarker THEN Acquired(c) ELSE Goto(c, "stat")
  /\ UNCHANGED <<attempts, nameVars, fsVars>>

\* ---- proper-lockfile: acquireLock, fs.stat(lockfilePath) after EEXIST ---
acquireStat(c) ==
  /\ pc[c] = "stat"
  /\ IF marker[file[c]] = NoMarker THEN Goto(c, "mkdir2") /\ UNCHANGED attempts
     ELSE IF ~isLockStale(marker[file[c]], staleOf(options[c])) THEN Contended(c)
     ELSE Goto(c, "rmdir") /\ UNCHANGED attempts
  /\ UNCHANGED <<nameVars, fsVars>>

\* ---- proper-lockfile: removeLock of the stale marker, ENOENT ignored ----
acquireRemove(c) ==
  /\ pc[c] = "rmdir"
  /\ marker' = [marker EXCEPT ![file[c]] = NoMarker]
  /\ pc' = [pc EXCEPT ![c] = "mkdir2"]
  /\ UNCHANGED <<locks, alive, op, file, options, result, ownAtCheck, rival, held, owners,
                 attempts, nameVars, fsVars>>

\* (variant) a failed second attempt cleans up the marker path before it fails
acquireRetryCleansUp(c) ==
  /\ pc[c] = "mkdir2"
  /\ IF marker[file[c]] = NoMarker
       THEN Acquired(c)
       ELSE /\ marker' = [marker EXCEPT ![file[c]] = NoMarker]
            /\ pc' = [pc EXCEPT ![c] = "idle"]
            /\ result' = [result EXCEPT ![c] = "ELOCKED"]
            /\ UNCHANGED <<locks, alive, op, file, options, ownAtCheck, rival, held, owners>>
  /\ UNCHANGED <<attempts, nameVars, fsVars>>

\* ---- proper-lockfile: acquireLock(file, { ...options, stale: 0 }) -------
acquireRetry(c) ==
  /\ pc[c] = "mkdir2"
  /\ IF marker[file[c]] = NoMarker THEN Acquired(c) /\ UNCHANGED attempts ELSE Contended(c)
  /\ UNCHANGED <<nameVars, fsVars>>

\* ---- filesystem.ts: unlock(file, options) -------------------------------
\* if (await this.isLocked(file, options)) await Lockfile.unlock(file, options)
\* (variant) unlock goes to Lockfile.unlock without looking at isLocked
unlockGuardAlways(p, opt) == IF pathExists(p) THEN "true" ELSE "ENOENT"

\* (variant) a rejection of isLocked is caught and unlock returns
unlockGuardCatches(p, opt) ==
  IF isLockedOutcome(p, opt) \in {"true", "false"} THEN isLockedOutcome(p, opt) ELSE "false"

unlockGuard(p, opt) == isLockedOutcome(p, opt)

unlock(c, p, opt) ==
  /\ Begin(c, "unlock", p, opt)
  /\ held' = [held EXCEPT ![p] = @ \ {c}]
  /\ UNCHANGED <<marker, locks, alive, rival, owners, attempts, nameVars, fsVars>>
  /\ CASE unlockGuard(p, opt) = "true" ->
            /\ pc' = [pc EXCEPT ![c] = "release"]
            /\ result' = [result EXCEPT ![c] = "none"]
            /\ ownAtCheck' = [ownAtCheck EXCEPT ![c] = locks[ProcOf(c)][p].acquired]
       [] unlockGuard(p, opt) = "false" ->
            /\ result' = [result EXCEPT ![c] = "ok"]
            /\ UNCHANGED <<pc, ownAtCheck>>
       [] OTHER ->
            /\ result' = [result EXCEPT ![c] = unlockGuard(p, opt)]
            /\ UNCHANGED <<pc, ownAtCheck>>

\* (variant) the marker is released whichever process acquired the lock
unlockReleaseAnyone(c) ==
  /\ pc[c] = "release"
  /\ locks' = [locks EXCEPT ![ProcOf(c)][file[c]] = NoLock]
  /\ owners' = [owners EXCEPT ![file[c]] = {d \in @ : ProcOf(d) # ProcOf(c)}]
  /\ pc' = [pc EXCEPT ![c] = "unlockRmdir"]
  /\ ownAtCheck' = [ownAtCheck EXCEPT ![c] = FALSE]
  /\ rival' = [d \in Callers |-> rival[d] /\ file[d] # file[c]]
  /\ UNCHANGED <<marker, alive, op, file, options, result, held, attempts, nameVars, fsVars>>

\* ---- proper-lockfile: unlock, the `locks[file]` lookup ------------------
\* ENOTACQUIRED when the process has no such lock; else delete locks[file]
unlockRelease(c) ==
  LET p == file[c]
      pr == ProcOf(c)
  IN
  /\ pc[c] = "release"
  /\ UNCHANGED <<attempts, nameVars, fsVars>>
  /\ IF ~locks[pr][p].acquired
       THEN Fail(c, "ENOTACQUIRED")
       ELSE /\ locks' = [locks EXCEPT ![pr][p] = NoLock]
            /\ owners' = [owners EXCEPT ![p] = {d \in @ : ProcOf(d) # pr}]
            /\ pc' = [pc EXCEPT ![c] = "unlockRmdir"]
            /\ ownAtCheck' = [ownAtCheck EXCEPT ![c] = FALSE]
            /\ rival' = [d \in Callers |-> rival[d] /\ file[d] # p]
            /\ UNCHANGED <<marker, alive, op, file, options, result, held>>

\* (variant) unlock resolves but the marker directory is left in place
removeLockKeepsMarker(c) ==
  /\ pc[c] = "unlockRmdir"
  /\ pc' = [pc EXCEPT ![c] = "idle"]
  /\ result' = [result EXCEPT ![c] = "ok"]
  /\ UNCHANGED <<marker, locks, alive, op, file, options, ownAtCheck, rival, held, owners,
                 attempts, nameVars, fsVars>>

\* ---- proper-lockfile: removeLock, fs.rmdir with ENOENT ignored ----------
removeLock(c) ==
  /\ pc[c] = "unlockRmdir"
  /\ marker' = [marker EXCEPT ![file[c]] = NoMarker]
  /\ pc' = [pc EXCEPT ![c] = "idle"]
  /\ result' = [result EXCEPT ![c] = "ok"]
  /\ UNCHANGED <<locks, alive, op, file, options, ownAtCheck, rival, held, owners,
                 attempts, nameVars, fsVars>>

\* ---- a process stops: its callers and its registry are gone, markers stay
Stopped(pr) ==
  /\ alive' = [alive EXCEPT ![pr] = FALSE]
  /\ locks' = [locks EXCEPT ![pr] = [p \in Paths |-> NoLock]]
  /\ pc' = [c \in Callers |-> IF ProcOf(c) = pr THEN "dead" ELSE pc[c]]
  /\ op' = [c \in Callers |-> IF ProcOf(c) = pr THEN "none" ELSE op[c]]
  /\ file' = [c \in Callers |-> IF ProcOf(c) = pr THEN "file" ELSE file[c]]
  /\ options' = [c \in Callers |-> IF ProcOf(c) = pr THEN <<>> ELSE options[c]]
  /\ result' = [c \in Callers |-> IF ProcOf(c) = pr THEN "none" ELSE result[c]]
  /\ ownAtCheck' = [c \in Callers |-> IF ProcOf(c) = pr THEN FALSE ELSE ownAtCheck[c]]
  /\ rival' = [c \in Callers |-> IF ProcOf(c) = pr THEN FALSE ELSE rival[c]]
  /\ held' = [p \in Paths |-> {d \in held[p] : ProcOf(d) # pr}]
  /\ owners' = [p \in Paths |-> {d \in owners[p] : ProcOf(d) # pr}]
  /\ attempts' = [c \in Callers |-> IF ProcOf(c) = pr THEN 0 ELSE attempts[c]]

Crash(pr) ==
  /\ alive[pr]
  /\ Stopped(pr)
  /\ UNCHANGED <<marker, nameVars, fsVars>>

\* ---- proper-lockfile: updateLock, the timer that refreshes the mtime ----
\* a marker that is gone or carries another mtime compromises the lock; the
\* default onCompromised throws inside the timer, which ends the process
updateLock(pr, p) ==
  /\ alive[pr]
  /\ locks[pr][p].acquired
  /\ locks[pr][p].mtime >= locks[pr][p].update
  /\ UNCHANGED <<nameVars, fsVars>>
  /\ IF marker[p] = NoMarker \/ marker[p] # locks[pr][p].mtime
       THEN /\ Stopped(pr)
            /\ UNCHANGED marker
       ELSE /\ marker' = [marker EXCEPT ![p] = 0]
            /\ locks' = [locks EXCEPT ![pr][p].mtime = 0]
            /\ UNCHANGED <<alive, pc, op, file, options, result, ownAtCheck, rival, held, owners,
                           attempts>>

\* ---- the clock: every age grows by TickMs; a due timer fires first ------
Tick ==
  /\ \A pr \in Procs, p \in Paths :
       locks[pr][p].acquired => locks[pr][p].mtime < locks[pr][p].update
  /\ marker' = [p \in Paths |->
                  IF marker[p] = NoMarker THEN NoMarker ELSE Min(marker[p] + TickMs, MaxAge)]
  /\ locks' = [pr \in Procs |-> [p \in Paths |->
                  IF locks[pr][p].acquired
                    THEN [locks[pr][p] EXCEPT !.mtime = Min(@ + TickMs, MaxAge)]
                    ELSE locks[pr][p]]]
  /\ UNCHANGED <<alive, pc, op, file, options, result, ownAtCheck, rival, held, owners,
                 attempts, nameVars, fsVars>>

\* the steps of caller c, with arguments from the paths Ps and the options Opts
CallerNext(c, Ps, Opts) ==
  \/ \E p \in Ps, opt \in Opts : isLocked(c, p, opt)
  \/ \E p \in Ps, opt \in Opts : isNotLocked(c, p, opt)
  \/ \E p \in Ps, opt \in Opts : lock(c, p, opt)
  \/ acquireMkdir(c)
  \/ acquireStat(c)
  \/ acquireRemove(c)
  \/ acquireRetry(c)
  \/ \E p \in Ps, opt \in Opts : unlock(c, p, opt)
  \/ unlockRelease(c)
  \/ removeLock(c)

\* paths whose directory exists ("orphan" fails like "missing": realpath)
InDirectory == {p \in Paths : parentExists(p)}

Next ==
  \/ \E c \in Callers : CallerNext(c, InDirectory, Options)
  \/ \E pr \in Procs : Crash(pr)
  \/ \E pr \in Procs, p \in Paths : updateLock(pr, p)
  \/ Tick

Spec == Init /\ [][Next]_vars

\* ---- every call is made without options ----------------------------------
NextDefault ==
  \/ \E c \in Callers : CallerNext(c, Paths, {<<>>})
  \/ \E pr \in Procs : Crash(pr)
  \/ \E pr \in Procs, p \in Paths : updateLock(pr, p)
  \/ Tick

SpecDefault == Init /\ [][NextDefault]_vars

\* ---- one caller that passes the same options to every call --------------
\* process B is gone; it may have left a marker that is stale by now
Solo == "c1"

InitSingle ==
  /\ InitCallers
  /\ NoName
  /\ NoFiles
  /\ \E opt \in Options : options = [c \in Callers |-> opt]
  /\ alive = [pr \in Procs |-> pr = "A"]
  /\ locks = [pr \in Procs |-> [p \in Paths |-> NoLock]]
  /\ \E a \in {NoMarker, MaxAge} :
       marker = [p \in Paths |-> IF p = "file" THEN a ELSE NoMarker]

\* the calls of a caller that reuses the options of its previous call
CallerNextSame(c) ==
  \/ \E p \in Paths : isLocked(c, p, options[c])
  \/ \E p \in Paths : isNotLocked(c, p, options[c])
  \/ \E p \in Paths : lock(c, p, options[c])
  \/ acquireMkdir(c)
  \/ acquireStat(c)
  \/ acquireRemove(c)
  \/ acquireRetry(c)
  \/ \E p \in Paths : unlock(c, p, options[c])
  \/ unlockRelease(c)
  \/ removeLock(c)

NextSingle ==
  \/ CallerNextSame(Solo)
  \/ \E p \in Paths : updateLock("A", p)
  \/ Tick

SpecSingle == InitSingle /\ [][NextSingle]_vars

\* ---- one caller, any options, a marker of any age left behind by B ------
InitRecover ==
  /\ InitCallers
  /\ NoName
  /\ NoFiles
  /\ options = [c \in Callers |-> <<>>]
  /\ alive = [pr \in Procs |-> pr = "A"]
  /\ locks = [pr \in Procs |-> [p \in Paths |-> NoLock]]
  /\ \E a \in {NoMarker} \cup Ages :
       marker = [p \in Paths |-> IF p = "file" THEN a ELSE NoMarker]

NextRecover ==
  \/ CallerNext(Solo, Paths, Options)
  \/ \E p \in Paths : updateLock("A", p)
  \/ Tick

SpecRecover == InitRecover /\ [][NextRecover]_vars

\* ---- lock calls with { retries } against a holder and each other --------
NextRetry ==
  \/ \E c \in Callers : CallerNext(c, InDirectory, RetryOptions)
  \/ \E pr \in Procs : Crash(pr)
  \/ \E pr \in Procs, p \in Paths : updateLock(pr, p)
  \/ Tick

SpecRetry == Init /\ [][NextRetry]_vars

\* ---- helper.ts: random() ------------------------------------------------
RandomBytesSize == 256
NameLength == 32

HexDigits == <<"0", "1", "2", "3", "4", "5", "6", "7",
               "8", "9", "a", "b", "c", "d", "e", "f">>

\* byte values the random source is sampled from
ByteSamples == {0, 1, 9, 10, 15, 16, 31, 127, 128, 160, 171, 255}

\* Crypto.randomBytes(size): the bytes of the source
randomBytes(size) == [i \in 1 .. size |-> entropy[((i - 1) % Len(entropy)) + 1]]

\* buffer.toString('hex'): two lower-case digits per byte, high nibble first
toHex(bytes) ==
  [i \in 1 .. 2 * Len(bytes) |->
     IF i % 2 = 1 THEN HexDigits[(bytes[(i + 1) \div 2] \div 16) + 1]
                  ELSE HexDigits[(bytes[i \div 2] % 16) + 1]]

\* (variant) the last character is cut off
sliceOffByOne(str, start, end) == SubSeq(str, start + 1, Min(end, Len(str)) - 1)

\* string.slice(start, end) for 0 <= start <= end
slice(str, start, end) == SubSeq(str, start + 1, Min(end, Len(str)))

randomName == slice(toHex(randomBytes(RandomBytesSize)), 0, NameLength)

random ==
  /\ name' = randomName
  /\ UNCHANGED <<marker, locks, alive, pc, op, file, options, result, ownAtCheck, rival,
                 held, owners, attempts, entropy, fsVars>>

InitRandom ==
  /\ InitCallers
  /\ alive = [pr \in Procs |-> TRUE]
  /\ options = [c \in Callers |-> <<>>]
  /\ marker = [p \in Paths |-> NoMarker]
  /\ locks = [pr \in Procs |-> [p \in Paths |-> NoLock]]
  /\ entropy \in [1 .. PatternLen -> ByteSamples]
  /\ name = <<>>
  /\ NoFiles

NextRandom == random

SpecRandom == InitRandom /\ [][NextRandom]_vars

\* ---- filesystem.ts: tempPath, tempDir, tempFile -------------------------
\* The paths are relative to the real path of Os.tmpdir(), which exists: <<d>>
\* is the entry d of it and <<d, f>> the entry f of its directory d.

\* the bytes the random source hands out to the calls of randomString()
TempSeeds == {<<0>>, <<171, 9>>}

\* the `name` arguments of tempFile: a file name without separator, null, or none
Undefined == [type |-> "undefined"]
Null == [type |-> "null"]
String(chars) == [type |-> "string", value |-> chars]
TempNames == {Undefined, Null, String(<<"a", "b", "c", ".", "t", "e", "s", "t">>),
              String(<<"t", "e", "s", "t">>)}

\* randomString() when the source hands out the bytes e
randomString(e) ==
  slice(toHex([i \in 1 .. RandomBytesSize |-> e[((i - 1) % Len(e)) + 1]]), 0, NameLength)

\* the result of randomString() for each choice of the bytes
randomStrings == [e \in TempSeeds |-> randomString(e)]

\* Path.resolve(dir, leaf) for a leaf without separator
resolve(dir, leaf) == Append(dir, leaf)

\* (variant) the directory is not created
ensureDirOnlyResolves(disk, dir) == disk

\* Fs.ensureDir(<<d>>): like mkdir -p, a directory that exists is kept as it is
ensureDir(disk, dir) ==
  IF dir[1] \in DOMAIN disk
    THEN disk
    ELSE [d \in DOMAIN disk \cup {dir[1]} |-> IF d = dir[1] THEN {} ELSE disk[d]]

\* Fs.ensureFile(<<d, f>>): the directory is made if it is missing and the
\* file is created empty unless it is there
ensureFile(disk, path) ==
  [ensureDir(disk, <<path[1]>>) EXCEPT ![path[1]] = @ \cup {path[2]}]

\* tempPath(): Path.resolve(await this.realPath(Os.tmpdir()), randomString())
tempPathOf(e) == resolve(<<>>, randomStrings[e])

tempPath ==
  \E e \in TempSeeds :
    /\ temp' = [op |-> "tempPath", path |-> tempPathOf(e)]
    /\ UNCHANGED <<lockVars, nameVars, tmp, stampVars, dirVars, appendVars, sizeVars>>

\* tempDir(): this.ensureDir(await this.tempPath())
tempDir ==
  \E e \in TempSeeds :
    /\ tmp' = ensureDir(tmp, tempPathOf(e))
    /\ temp' = [op |-> "tempDir", path |-> tempPathOf(e)]
    /\ UNCHANGED <<lockVars, nameVars, stampVars, dirVars, appendVars, sizeVars>>

\* tempFile(name): the file name is chosen, tempDir() makes the directory,
\* Fs.ensureFile makes the file
tempFile ==
  \E arg \in TempNames, e1, e2 \in TempSeeds :
    LET filename == IF arg.type \in {"null", "undefined"} THEN randomStrings[e1] ELSE arg.value
        dir == tempPathOf(e2)
        target == resolve(dir, filename)
    IN /\ tmp' = ensureFile(ensureDir(tmp, dir), target)
       /\ temp' = [op |-> "tempFile", name |-> arg, path |-> target]
       /\ UNCHANGED <<lockVars, nameVars, stampVars, dirVars, appendVars, sizeVars>>

\* no lock is in use
NoLocks ==
  /\ InitCallers
  /\ alive = [pr \in Procs |-> TRUE]
  /\ options = [c \in Callers |-> <<>>]
  /\ marker = [p \in Paths |-> NoMarker]
  /\ locks = [pr \in Procs |-> [p \in Paths |-> NoLock]]

InitTemp == NoLocks /\ NoName /\ NoFiles

NextTemp == tempPath \/ tempDir \/ tempFile

SpecTemp == InitTemp /\ [][NextTemp]_vars

\* ---- filesystem.ts: updateTimestamps ------------------------------------
TimeValues == {Date(t) : t \in Times} \cup {Number(t) : t \in Times}

\* (variant) a number passes for a date
isDateOrNumber(date) == date.type \in {"Date", "number"}

\* helper.ts: date instanceof Date
isDate(date) == date.type = "Date"

\* Fs.utimes(path, atime, mtime) on a file that exists
utimes(path, atime, mtime) ==
  [stamps EXCEPT ![path] = [atime |-> atime.time, mtime |-> mtime.time]]

\* updateTimestamps(path, lastAccessed, lastModified): both arguments are
\* tested before Fs.utimes is called; Fs.utimes rejects for a missing file
updateTimestamps ==
  \E path \in Paths, lastAccessed, lastModified \in TimeValues :
    LET settle(r) == stampCall' = [op |-> "updateTimestamps", path |-> path,
                                   lastAccessed |-> lastAccessed,
                                   lastModified |-> lastModified, result |-> r]
    IN /\ IF ~isDate(lastAccessed) \/ ~isDate(lastModified)
            THEN settle("Error") /\ UNCHANGED stamps
            ELSE IF pathExists(path)
                   THEN settle("ok") /\ stamps' = utimes(path, lastAccessed, lastModified)
                   ELSE settle("ENOENT") /\ UNCHANGED stamps
       /\ UNCHANGED <<lockVars, nameVars, tempVars, dirVars, appendVars, sizeVars>>

InitStamps == NoLocks /\ NoName /\ NoFiles

NextStamps == updateTimestamps

SpecStamps == InitStamps /\ [][NextStamps]_vars

\* ---- filesystem.ts: isEmptyDir -------------------------------------------
\* the paths isEmptyDir is asked about: Os.tmpdir(), its entries and theirs
DirPaths ==
  {<<>>} \cup {<<randomStrings[e]>> : e \in TempSeeds}
         \cup {<<randomStrings[e], n.value>> :
                 e \in TempSeeds, n \in {m \in TempNames : m.type = "string"}}

\* what is at the path: a directory, a file or nothing
kindOf(disk, path) ==
  IF path = <<>> THEN "dir"
  ELSE IF path[1] \notin DOMAIN disk THEN "none"
  ELSE IF Len(path) = 1 THEN "dir"
  ELSE IF path[2] \in disk[path[1]] THEN "file"
  ELSE "none"

entriesOf(disk, path) == IF path = <<>> THEN DOMAIN disk ELSE disk[path[1]]

\* Fs.opendir(path): the directory handle, or the error it rejects with;
\* `denied` stands for a directory the process may not read
opendir(disk, path, denied) ==
  IF kindOf(disk, path) = "none" THEN [error |-> "ENOENT"]
  ELSE IF kindOf(disk, path) = "file" THEN [error |-> "ENOTDIR"]
  ELSE IF denied THEN [error |-> "EACCES"]
  ELSE [error |-> "none", entries |-> entriesOf(disk, path)]

\* dir.read(): the next entry, null when there is none
read(dir) ==
  IF dir.entries = {} THEN Null ELSE String(CHOOSE e \in dir.entries : TRUE)

\* (variant) without the catch block
isEmptyDirRethrows(disk, path, denied) ==
  LET dir == opendir(disk, path, denied)
  IN IF dir.error # "none" THEN dir.error
     ELSE IF read(dir) = Null THEN "true" ELSE "false"

\* how isEmptyDir(path) settles: `value === null`, false from the catch block
isEmptyDirOutcome(disk, path, denied) ==
  LET dir == opendir(disk, path, denied)
  IN IF dir.error # "none" THEN "false"
     ELSE IF read(dir) = Null THEN "true" ELSE "false"

isEmptyDir ==
  \E path \in DirPaths, denied \in BOOLEAN :
    /\ emptyDir' = [op |-> "isEmptyDir", path |-> path, denied |-> denied,
                    result |-> isEmptyDirOutcome(tmp, path, denied)]
    /\ UNCHANGED <<lockVars, nameVars, tempVars, stampVars, appendVars, sizeVars>>

InitDir == NoLocks /\ NoName /\ NoFiles

NextDir == tempDir \/ tempFile \/ isEmptyDir

SpecDir == InitDir /\ [][NextDir]_vars

\* ---- file-size-resolver.ts: FileSizeResolver ----------------------------
\* One resolver is shared by the callers.  A number is kept as a fraction,
\* so that the divisions by 1024, which are exact in floating point for
\* these sizes, stay exact here.
Kilo == 1024

\* file sizes in bytes
Sizes == {0, 1, 5, 1024}

Rational(n) == [num |-> n, den |-> 1]
Divide(x, d) == [num |-> x.num, den |-> x.den * d]

Fulfilled(v) == [state |-> "fulfilled", value |-> v]
Rejected(e) == [state |-> "rejected", reason |-> e]

\* (variant) the factor is applied the wrong way round
sizeInKbMultiplies(b) == [num |-> b.num * Kilo, den |-> b.den]

sizeInKb(b) == Divide(b, Kilo)

sizeInMb(b) == Divide(sizeInKb(b), Kilo)

\* convert(bytes): by the metric the resolver holds when it is called
convert(b) ==
  CASE metric = "kilobytes" -> sizeInKb(b)
    [] metric = "megabytes" -> sizeInMb(b)
    [] OTHER -> b

\* new FileSizeResolver(filePath), once the calls on the previous one are over
construct ==
  /\ \A c \in Callers : task[c].pc = "idle"
  /\ metric' = "bytes"
  /\ chosen' = FALSE
  /\ task' = [c \in Callers |-> NoTask]
  /\ UNCHANGED <<lockVars, nameVars, tempVars, stampVars, dirVars, appendVars, fileSize>>

\* inBytes(), inKb(), inMb() up to their first suspension: setMetric stores
\* the metric and returns the resolver, and awaiting the resolver, which has
\* a method `then`, calls then(), whose calculate() awaits Fs.stat
inMetric(c, o, m) ==
  /\ task[c].pc = "idle"
  /\ metric' = m
  /\ chosen' = TRUE
  /\ task' = [task EXCEPT ![c] = [pc |-> "awaitThis", op |-> o, fresh |-> FALSE,
                                  result |-> Pending]]
  /\ UNCHANGED <<lockVars, nameVars, tempVars, stampVars, dirVars, appendVars, fileSize>>

inBytes(c) == inMetric(c, "inBytes", "bytes")
inKb(c) == inMetric(c, "inKb", "kilobytes")
inMb(c) == inMetric(c, "inMb", "megabytes")

\* `await resolver`: then() is called and its calculate() awaits Fs.stat
then(c) ==
  /\ task[c].pc = "idle"
  /\ task' = [task EXCEPT ![c] = [pc |-> "await", op |-> "then", fresh |-> ~chosen,
                                  result |-> Pending]]
  /\ UNCHANGED <<lockVars, nameVars, tempVars, stampVars, dirVars, appendVars,
                 metric, fileSize, chosen>>

\* the Fs.stat of then() returns.  When it rejects, the promise of then()
\* rejects and onFulfilled is not called: then() has no second parameter, so
\* the awaiting caller is never resumed.  When it fulfils, onFulfilled gets
\* the converted size: the caller of `await resolver` has its value, and
\* inBytes/inKb/inMb go on to their own calculate()
thenSettles(c) ==
  /\ task[c].pc \in {"awaitThis", "await"}
  /\ task' = [task EXCEPT ![c] =
                IF fileSize = NoSize THEN [@ EXCEPT !.pc = "pending"]
                ELSE IF @.pc = "awaitThis" THEN [@ EXCEPT !.pc = "calculate"]
                ELSE [@ EXCEPT !.pc = "idle",
                               !.result = Fulfilled(convert(Rational(fileSize)))]]
  /\ UNCHANGED <<lockVars, nameVars, tempVars, stampVars, dirVars, appendVars,
                 metric, fileSize, chosen>>

\* the Fs.stat of the calculate() of inBytes/inKb/inMb returns
calculateSettles(c) ==
  /\ task[c].pc = "calculate"
  /\ task' = [task EXCEPT ![c] =
                [@ EXCEPT !.pc = "idle",
                          !.result = IF fileSize = NoSize
                                       THEN Rejected("ENOENT")
                                       ELSE Fulfilled(convert(Rational(fileSize)))]]
  /\ UNCHANGED <<lockVars, nameVars, tempVars, stampVars, dirVars, appendVars,
                 metric, fileSize, chosen>>

\* the file is written anew with n bytes
writeFile ==
  /\ \E n \in Sizes : fileSize' = n
  /\ UNCHANGED <<lockVars, nameVars, tempVars, stampVars, dirVars, appendVars,
                 metric, chosen, task>>

\* the file is removed
removeFile ==
  /\ fileSize # NoSize
  /\ fileSize' = NoSize
  /\ UNCHANGED <<lockVars, nameVars, tempVars, stampVars, dirVars, appendVars,
                 metric, chosen, task>>

\* a step of the call of caller c that is under way
Settles(c) == thenSettles(c) \/ calculateSettles(c)

\* the resolver of a file of some size, or of a missing file
InitSize ==
  /\ NoLocks /\ NoName /\ NoTemp /\ NoStamps /\ NoDir /\ NoAppend
  /\ metric = "bytes"
  /\ fileSize \in Sizes \cup {NoSize}
  /\ chosen = FALSE
  /\ task = [c \in Callers |-> NoTask]

\* one caller, one call after the other
NextSize ==
  \/ construct
  \/ writeFile
  \/ inBytes(Solo) \/ inKb(Solo) \/ inMb(Solo) \/ then(Solo)
  \/ thenSettles(Solo) \/ calculateSettles(Solo)

SpecSize == InitSize /\ [][NextSize]_vars

\* two callers use the resolver at the same time
NextSizeShared ==
  \/ construct
  \/ writeFile
  \/ removeFile
  \/ \E c \in Callers :
       \/ inBytes(c) \/ inKb(c) \/ inMb(c) \/ then(c)
       \/ thenSettles(c) \/ calculateSettles(c)

SpecSizeShared == InitSize /\ [][NextSizeShared]_vars

\* ---- filesystem.ts: append, appendLine ----------------------------------
\* The file is the sequence of the chunks written to it.  A chunk says which
\* call wrote it (the caller and the number of its call), by which method,
\* and whether it is Os.EOL or the `content` argument.
Chunk(c, k, o, part) == [by |-> c, call |-> k, op |-> o, part |-> part]

\* what the file holds before the calls
Headline == Chunk("none", 0, "append", "content")

\* Fs.appendFile(file, data): one write at the end of the file, which is
\* created if it does not exist
appendFile(t, data) == [exists |-> TRUE, chunks |-> Append(t.chunks, data)]

\* append(file, content)
append(c) ==
  /\ writer[c].pc = "idle"
  /\ writer[c].calls < MaxAppends
  /\ text' = appendFile(text, Chunk(c, writer[c].calls + 1, "append", "content"))
  /\ writer' = [writer EXCEPT ![c].calls = @ + 1]
  /\ UNCHANGED <<lockVars, nameVars, tempVars, stampVars, dirVars, sizeVars>>

\* appendLine(file, content) up to the end of `await this.append(file, Os.EOL)`
appendLine(c) ==
  /\ writer[c].pc = "idle"
  /\ writer[c].calls < MaxAppends
  /\ text' = appendFile(text, Chunk(c, writer[c].calls + 1, "appendLine", "EOL"))
  /\ writer' = [writer EXCEPT ![c] = [pc |-> "content", calls |-> @.calls + 1]]
  /\ UNCHANGED <<lockVars, nameVars, tempVars, stampVars, dirVars, sizeVars>>

\* appendLine(file, content): `await this.append(file, content)` and return
appendLineContent(c) ==
  /\ writer[c].pc = "content"
  /\ text' = appendFile(text, Chunk(c, writer[c].calls, "appendLine", "content"))
  /\ writer' = [writer EXCEPT ![c].pc = "idle"]
  /\ UNCHANGED <<lockVars, nameVars, tempVars, stampVars, dirVars, sizeVars>>

\* the file is missing, empty or holds a headline
InitAppend ==
  /\ NoLocks /\ NoName /\ NoTemp /\ NoStamps /\ NoDir /\ NoResolver
  /\ text \in {NoText, appendFile(NoText, Headline),
               [exists |-> TRUE, chunks |-> <<>>]}
  /\ writer = [c \in Callers |-> [pc |-> "idle", calls |-> 0]]

NextAppend == \E c \in Callers : append(c) \/ appendLine(c) \/ appendLineContent(c)

SpecAppend == InitAppend /\ [][NextAppend]_vars

\* ---- the values the state of these helpers takes ------------------------
FilesTypeOK ==
  /\ DOMAIN tmp \subseteq {randomStrings[e] : e \in TempSeeds}
  /\ temp.op \in {"none", "tempPath", "tempDir", "tempFile"}
  /\ DOMAIN stamps = {p \in Paths : pathExists(p)}
  /\ \A p \in DOMAIN stamps : stamps[p] \in [atime : {0} \cup Times, mtime : {0} \cup Times]
  /\ stampCall.op \in {"none", "updateTimestamps"}
  /\ emptyDir.op \in {"none", "isEmptyDir"}
  /\ text.exists \in BOOLEAN
  /\ Len(text.chunks) <= 1 + 3 * MaxAppends * Cardinality(Callers)
  /\ writer \in [Callers -> [pc : {"idle", "content"}, calls : 0 .. MaxAppends]]
  /\ metric \in {"bytes", "kilobytes", "megabytes"}
  /\ fileSize \in Sizes \cup {NoSize}
  /\ chosen \in BOOLEAN
  /\ \A c \in Callers :
       /\ task[c].pc \in {"idle", "awaitThis", "await", "calculate", "pending"}
       /\ task[c].op \in {"none", "inBytes", "inKb", "inMb", "then"}
       /\ task[c].result.state \in {"pending", "fulfilled", "rejected"}

(***************************************************************************)
(* Properties                                                              *)
(***************************************************************************)

\* the step is caller c calling method o (the call's first file system
\* operation included)
Calls(c, o) ==
  /\ pc[c] = "idle"
  /\ pc'[c] # "dead"
  /\ op'[c] = o
  /\ <<pc[c], op[c], file[c], options[c], result[c]>>
       # <<pc'[c], op'[c], file'[c], options'[c], result'[c]>>

\* p carries a marker that is not stale under the options o
Live(p, o) == marker[p] # NoMarker /\ marker[p] <= staleOf(o)

Negated(r) == CASE r = "true" -> "false" [] r = "false" -> "true" [] OTHER -> r

C2_OneCreatorPerPath == \A p \in Paths : Cardinality(owners[p]) <= 1

\* C3: no two callers are both between the successful return of their own
\* lock(P) and their own unlock(P).
C3_MutualExclusion == \A p \in Paths : Cardinality(held[p]) <= 1

\* C4: lock(P) on a path that carries a live marker returns without error,
\* creates no marker and leaves the existing marker as it is.
C4_LockOnLiveLockIsNoop ==
  [][\A c \in Callers :
       (Calls(c, "lock") /\ Live(file'[c], options'[c]) /\ pathExists(file'[c]))
         => /\ pc'[c] = "idle"
            /\ result'[c] = "ok"
            /\ marker' = marker
            /\ locks' = locks]_vars

\* a lock call has returned on a marker the caller did not create
W_C4 ==
  \E c \in Callers :
    /\ pc[c] = "idle" /\ op[c] = "lock" /\ result[c] = "ok"
    /\ c \in held[file[c]] /\ c \notin owners[file[c]]
    /\ Live(file[c], options[c])

\* C5: of two interleaved lock(P) calls on an unlocked path one creates the
\* marker; the other, once its rival has created it, fails with ELOCKED and
\* neither removes nor creates a marker.
C5_LoserBacksOff ==
  [][\A c \in Callers :
       (pc[c] \in InLock /\ rival[c])
         => /\ marker'[file[c]] = marker[file[c]] \/ pc'[c] = pc[c]
            /\ pc'[c] = "idle" => result'[c] = "ELOCKED"]_vars

C7_TrueIffBelowThreshold ==
  [][\A c \in Callers :
       Calls(c, "isLocked")
         => result'[c] =
              (IF /\ marker[file'[c]] # NoMarker
                  /\ marker[file'[c]] < configuredStale(options'[c])
                 THEN "true" ELSE "false")]_vars

\* C7 amended: on an existing path, isLocked(P, options) returns true iff a
\* marker exists whose age is at most max(options.stale, 2000 ms), judged
\* at the call.
C7_TrueIffWithinEffectiveThreshold ==
  [][\A c \in Callers :
       (Calls(c, "isLocked") /\ pathExists(file'[c]))
         => result'[c] =
              (IF /\ marker[file'[c]] # NoMarker
                  /\ marker[file'[c]] <= Max(configuredStale(options'[c]), MinStale)
                 THEN "true" ELSE "false")]_vars

\* isLocked has returned false although the marker exists
W_C7 ==
  /\ pc[Solo] = "idle" /\ op[Solo] = "isLocked" /\ result[Solo] = "false"
  /\ marker[file[Solo]] # NoMarker

\* C8 as stated: when the marker is older than the configured threshold T,
\* isLocked with that threshold returns false and lock with that threshold
\* goes on to replace the marker.
C8_StaleBeyondConfiguredThreshold ==
  [][\A c \in Callers :
       (/\ pathExists(file'[c])
        /\ marker[file'[c]] # NoMarker
        /\ marker[file'[c]] > configuredStale(options'[c]))
         => /\ Calls(c, "isLocked") => result'[c] = "false"
            /\ Calls(c, "lock") => pc'[c] = "mkdir"]_vars

\* the marker of p is not refreshed by a running process
Abandoned(p) == \A pr \in Procs : ~locks[pr][p].acquired

\* C8 amended: with the threshold max(T, 2000 ms), for a marker that no
\* process refreshes: isLocked returns false exactly when the marker is older
\* than that threshold; an uncontended lock then removes the marker, creates
\* a new one and returns, and isLocked is true afterwards.
C8_StaleBeyondEffectiveThreshold ==
  /\ [](\A p \in Paths :
          /\ (/\ pc[Solo] \in {"mkdir", "stat"} /\ file[Solo] = p
              /\ Abandoned(p) /\ marker[p] # NoMarker)
               => marker[p] > Max(configuredStale(options[Solo]), MinStale)
          /\ (pc[Solo] = "idle" /\ op[Solo] = "lock" /\ file[Solo] = p /\ pathExists(p))
               => result[Solo] = "ok" \/ ~Abandoned(p))
  /\ [][/\ (Calls(Solo, "isLocked") /\ marker[file'[Solo]] # NoMarker)
             => (result'[Solo] = "false"
                   <=> marker[file'[Solo]] > Max(configuredStale(options'[Solo]), MinStale))
        /\ (/\ Calls(Solo, "lock") /\ marker[file'[Solo]] # NoMarker
            /\ marker[file'[Solo]] > Max(configuredStale(options'[Solo]), MinStale))
             => pc'[Solo] = "mkdir"
        /\ (pc[Solo] = "stat" /\ pc'[Solo] # "stat" /\ Abandoned(file[Solo]))
             => pc'[Solo] \in {"rmdir", "mkdir2"}
        /\ (pc[Solo] = "rmdir" /\ pc'[Solo] # "rmdir" /\ Abandoned(file[Solo]))
             => pc'[Solo] = "mkdir2" /\ marker'[file[Solo]] = NoMarker
        /\ (pc[Solo] = "mkdir2" /\ pc'[Solo] # "mkdir2" /\ Abandoned(file[Solo]))
             => /\ result'[Solo] = "ok"
                /\ marker'[file[Solo]] = 0
                /\ Live(file[Solo], options[Solo])']_vars

\* a lock call with { stale: SmallStale } has removed the stale marker and is
\* about to create its own
W_C8 ==
  /\ pc[Solo] = "mkdir2" /\ options[Solo] = <<SmallStale>>
  /\ marker[file[Solo]] = NoMarker /\ Abandoned(file[Solo])

\* C9: isNotLocked(P, options) returns the negation of what isLocked(P,
\* options) returns in the same state and fails exactly when isLocked fails.
C9_IsNotLockedNegatesIsLocked ==
  [][\A c \in Callers :
       Calls(c, "isNotLocked")
         => result'[c] = Negated(isLockedOutcome(file'[c], options'[c]))]_vars

\* isNotLocked has returned false on a path that carries a live marker
W_C9 ==
  /\ pc[Solo] = "idle" /\ op[Solo] = "isNotLocked" /\ result[Solo] = "false"
  /\ Live(file[Solo], options[Solo])

\* C10: an unlock(P) whose isLocked check saw the lock of its own process
\* returns without error also when another caller releases the lock before
\* it does.
C10_UnlockSurvivesRemoval ==
  [][\A c \in Callers :
       (pc[c] = "release" /\ ownAtCheck[c] /\ pc'[c] = "idle")
         => result'[c] = "ok"]_vars

\* C11 as stated: an unlock(P) that found P live-locked, whichever caller or
\* process created the marker, returns without error, and the marker is gone.
C11_UnlockRemovesAnyLiveLock ==
  [][\A c \in Callers :
       (op[c] = "unlock" /\ pc[c] \in {"release", "unlockRmdir"} /\ pc'[c] = "idle")
         => result'[c] = "ok" /\ marker'[file[c]] = NoMarker]_vars

\* C11 amended: an unlock(P) that found P live-locked removes the marker when
\* the caller's own process has the lock registered at the release, whichever
\* of its callers acquired it; it then returns without error and isLocked(P)
\* is false.  Otherwise it rejects with ENOTACQUIRED and the marker stays.
C11_UnlockRemovesOwnProcessLock ==
  [][\A c \in Callers :
       /\ (pc[c] = "release" /\ pc'[c] \notin {"release", "dead"})
            => /\ marker' = marker
               /\ IF locks[ProcOf(c)][file[c]].acquired
                    THEN pc'[c] = "unlockRmdir"
                    ELSE pc'[c] = "idle" /\ result'[c] = "ENOTACQUIRED"
       /\ (pc[c] = "unlockRmdir" /\ pc'[c] = "idle")
            => /\ result'[c] = "ok"
               /\ marker'[file[c]] = NoMarker
               /\ \A o \in Options : isLockedOutcome(file[c], o)' = "false"]_vars

\* unlock by a caller of process A has been rejected on the live lock of B
W_C11 ==
  \E c \in Callers :
    /\ pc[c] = "idle" /\ op[c] = "unlock" /\ result[c] = "ENOTACQUIRED"
    /\ alive["B"] /\ locks["B"][file[c]].acquired
    /\ Live(file[c], options[c])

C13_LockWithoutParentFails ==
  [][\A c \in Callers :
       (Calls(c, "lock") /\ ~parentExists(file'[c]))
         => /\ pc'[c] = "idle"
            /\ result'[c] = "ENOENT"
            /\ marker' = marker
            /\ locks' = locks]_vars

\* lock has been rejected on a path in a directory that does not exist
W_C13 ==
  \E c \in Callers :
    /\ pc[c] = "idle" /\ op[c] = "lock" /\ ~parentExists(file[c])
    /\ result[c] = "ENOENT" /\ marker[file[c]] = NoMarker

\* C14 as stated: lock(P) succeeds for a target path that does not exist yet
\* but whose parent directory exists; isLocked(P) is true afterwards.
C14_LockReservesMissingPath ==
  \A c \in Callers :
    (pc[c] = "idle" /\ op[c] = "lock" /\ ~pathExists(file[c]) /\ parentExists(file[c]))
      => result[c] = "ok" /\ isLockedOutcome(file[c], options[c]) = "true"

\* C14 amended: lock(P) for a target path that does not exist yet is rejected
\* with ENOENT at once, also when the parent directory exists: the call never
\* reaches the marker creation, no marker exists for P and the caller does
\* not hold P.
C14_LockOfMissingPathRejected ==
  \A c \in Callers :
    (op[c] = "lock" /\ ~pathExists(file[c]) /\ parentExists(file[c]))
      => /\ pc[c] = "idle"
         /\ result[c] = "ENOENT"
         /\ marker[file[c]] = NoMarker
         /\ c \notin held[file[c]]

\* lock has been rejected on a missing file of an existing directory
W_C14 ==
  \E c \in Callers :
    /\ pc[c] = "idle" /\ op[c] = "lock" /\ result[c] = "ENOENT"
    /\ ~pathExists(file[c]) /\ parentExists(file[c])

\* C15: a lock is never acquired for a file that does not exist: no marker
\* exists for it, no caller holds or owns it, no lock call on it is under
\* way and it never reads as locked.
C15_NoLockForMissingFile ==
  \A p \in Paths :
    ~pathExists(p)
      => /\ marker[p] = NoMarker
         /\ held[p] = {} /\ owners[p] = {}
         /\ \A pr \in Procs : ~locks[pr][p].acquired
         /\ \A c \in Callers : file[c] = p => pc[c] \in {"idle", "dead"}
         /\ \A o \in Options : isLockedOutcome(p, o) # "true"

\* both callers have called lock for a file that does not exist
W_C15 ==
  \A c \in Callers :
    /\ pc[c] = "idle" /\ op[c] = "lock" /\ ~pathExists(file[c])
    /\ result[c] # "ok"

\* C16: a lock(P, { retries }) call made while another holder (process B)
\* keeps P validly locked without releasing it has ended, after at most the
\* configured number of retries, with the contention error ELOCKED.
C16_RetriesEndInContention ==
  \A c \in Callers :
    (/\ pc[c] = "idle" /\ op[c] = "lock" /\ retriesOf(options[c]) > 0
     /\ alive["B"] /\ locks["B"][file[c]].acquired)
      => result[c] = "ELOCKED" /\ attempts[c] <= retriesOf(options[c])

\* C17: a lock(P) call that fails leaves no marker of its own behind: the
\* step at which it fails changes no marker and no registry entry, a marker
\* is created only by the step that makes the call succeed, and a call that
\* fails after its first attempt leaves P with the marker that made it fail.
C17_FailedLockLeavesNoMarker ==
  [][\A c \in Callers :
       /\ ((Calls(c, "lock") \/ pc[c] \in InLock) /\ pc'[c] = "idle" /\ result'[c] # "ok")
            => /\ marker' = marker
               /\ locks' = locks
               /\ owners' = owners
               /\ pc[c] \in InLock => marker'[file[c]] # NoMarker
       /\ (/\ pc[c] \in InLock /\ pc'[c] \notin {pc[c], "dead"}
           /\ marker[file[c]] = NoMarker /\ marker'[file[c]] # NoMarker)
            => pc'[c] = "idle" /\ result'[c] = "ok"]_vars

\* a lock call has given up with ELOCKED on the marker another caller created
W_C17 ==
  \E c \in Callers :
    /\ pc[c] = "idle" /\ op[c] = "lock" /\ result[c] = "ELOCKED"
    /\ c \notin owners[file[c]] /\ owners[file[c]] # {}
    /\ marker[file[c]] # NoMarker

\* C18: lock, unlock and isLocked swallow no error: a rejection of Lockfile.check
\* rejects the call with that error, a refused release and an exhausted
\* acquisition reject it too, and a call returns silently at once only in
\* the two no-ops (lock on a locked path, unlock on an unlocked path).
C18_ErrorsSurface ==
  [][\A c \in Callers :
       LET out == check(file'[c], options'[c]) IN
       /\ Calls(c, "isLocked") => result'[c] = out
       /\ ((Calls(c, "lock") \/ Calls(c, "unlock")) /\ out \notin {"true", "false"})
            => pc'[c] = "idle" /\ result'[c] = out
       /\ (Calls(c, "lock") /\ pc'[c] = "idle" /\ result'[c] = "ok") => out = "true"
       /\ (Calls(c, "unlock") /\ pc'[c] = "idle" /\ result'[c] = "ok") => out = "false"
       /\ (/\ pc[c] = "release" /\ pc'[c] \notin {"release", "dead"}
           /\ ~locks[ProcOf(c)][file[c]].acquired)
            => pc'[c] = "idle" /\ result'[c] = "ENOTACQUIRED"
       /\ (/\ pc[c] \in {"stat", "mkdir2"} /\ pc'[c] \notin {pc[c], "dead"}
           /\ marker[file[c]] # NoMarker
           /\ pc[c] = "stat" => ~isLockStale(marker[file[c]], staleOf(options[c]))
           /\ attempts[c] = retriesOf(options[c]))
            => pc'[c] = "idle" /\ result'[c] = "ELOCKED"]_vars

\* one call has been rejected with ENOENT and one with ENOTACQUIRED
W_C18 ==
  \E c, d \in Callers :
    /\ pc[c] = "idle" /\ op[c] \in {"lock", "unlock", "isLocked"}
    /\ result[c] = "ENOENT"
    /\ pc[d] = "idle" /\ op[d] = "unlock" /\ result[d] = "ENOTACQUIRED"

\* C19: isLocked and isNotLocked are read-only: a call of either, whatever
\* the other callers are in the middle of, changes no marker, no registry
\* entry and no other call's progress.
C19_QueriesAreReadOnly ==
  [][\A c \in Callers :
       (Calls(c, "isLocked") \/ Calls(c, "isNotLocked"))
         => /\ marker' = marker
            /\ locks' = locks
            /\ alive' = alive
            /\ held' = held /\ owners' = owners
            /\ pc' = pc
            /\ \A d \in Callers \ {c} : result'[d] = result[d]]_vars

\* isLocked has returned false on a stale marker while another caller's lock
\* is under way on the same path
W_C19 ==
  \E c, d \in Callers :
    /\ c # d
    /\ pc[c] = "idle" /\ op[c] = "isLocked" /\ result[c] = "false"
    /\ marker[file[c]] # NoMarker /\ ~Live(file[c], options[c])
    /\ pc[d] \in InLock /\ file[d] = file[c]

HexAlphabet == {"0", "1", "2", "3", "4", "5", "6", "7", "8", "9", "a", "b", "c", "d", "e", "f"}

\* the number a hexadecimal digit stands for
HexValue(ch) == CHOOSE v \in 0 .. 15 : HexDigits[v + 1] = ch

\* C20: random() returns a string of exactly 32 characters, all from 0-9a-f,
\* made from at least 16 random bytes: its characters 2k-1 and 2k are the
\* hexadecimal digits of the k-th byte of the source, the leftmost 32
\* characters of the encoding.
C20_RandomNameIsHex32 ==
  name # <<>>
    => /\ Len(name) = 32
       /\ \A i \in 1 .. Len(name) : name[i] \in HexAlphabet
       /\ RandomBytesSize >= 16
       /\ \A k \in 1 .. 16 :
            k <= Len(name) \div 2
              => 16 * HexValue(name[2 * k - 1]) + HexValue(name[2 * k])
                   = randomBytes(RandomBytesSize)[k]

\* random() has returned the name made from the bytes 171 and 9
W_C20 ==
  /\ Len(name) = 32
  /\ name[1] = "a" /\ name[2] = "b" /\ name[3] = "0" /\ name[4] = "9"
  /\ name[31] = "0" /\ name[32] = "9"

\* a string of 32 characters of 0-9a-f
IsRandomName(n) ==
  /\ Len(n) = NameLength
  /\ \A i \in 1 .. Len(n) : n[i] \in HexAlphabet

\* C22: when tempDir() returns, its path is a random name directly under the
\* OS temp directory and is a directory on disk; when tempFile(name) returns,
\* its path lies in such a directory, ends in `name` (in a random name when
\* `name` is null or undefined) and is a file on disk; a call of tempPath()
\* returns such a path and changes nothing on disk.
C22_TempPathsAreCreated ==
  [][LET p == temp'.path
     IN /\ temp'.op = "tempPath"
             => /\ Len(p) = 1 /\ IsRandomName(p[1])
                /\ tmp' = tmp
        /\ temp'.op = "tempDir"
             => /\ Len(p) = 1 /\ IsRandomName(p[1])
                /\ p[1] \in DOMAIN tmp'
        /\ temp'.op = "tempFile"
             => /\ Len(p) = 2 /\ IsRandomName(p[1])
                /\ p[1] \in DOMAIN tmp'
                /\ p[2] \in tmp'[p[1]]
                /\ temp'.name.type = "string" => p[2] = temp'.name.value
                /\ temp'.name.type \in {"null", "undefined"} => IsRandomName(p[2])]_vars

\* tempFile(null) has returned a file with a random name, in the second
\* directory made under the OS temp directory
W_C22 ==
  /\ temp.op = "tempFile" /\ temp.name = Null
  /\ temp.path[2] \in tmp[temp.path[1]]
  /\ Cardinality(DOMAIN tmp) = 2

C24_IsEmptyDirNeverThrows ==
  [][LET c == emptyDir'
     IN (c.op = "isEmptyDir" /\ c # emptyDir)
          => /\ c.result \in {"true", "false"}
             /\ c.result = "true"
                  <=> /\ kindOf(tmp, c.path) = "dir"
                      /\ entriesOf(tmp, c.path) = {}
                      /\ ~c.denied
             /\ (kindOf(tmp, c.path) = "dir" /\ entriesOf(tmp, c.path) # {})
                  => c.result = "false"
             /\ kindOf(tmp, c.path) \in {"none", "file"} => c.result = "false"]_vars

\* isEmptyDir has returned false for a file in a temporary directory
W_C24 ==
  /\ emptyDir.op = "isEmptyDir" /\ emptyDir.result = "false"
  /\ kindOf(tmp, emptyDir.path) = "file"

RECURSIVE Reduce(_)
\* the fraction in lowest terms; the denominators are powers of two
Reduce(x) ==
  IF x.den > 1 /\ x.num % 2 = 0
    THEN Reduce([num |-> x.num \div 2, den |-> x.den \div 2])
    ELSE x

\* caller c's call on the resolver fulfils in this step
Fulfils(c) ==
  /\ task[c].pc # "idle"
  /\ task'[c].pc = "idle"
  /\ task'[c].result.state = "fulfilled"

\* C25: when a call on the resolver of a file of n bytes fulfils, with no
\* other call under way, inBytes() gives n, inKb() gives n/1024 and inMb()
\* gives n/1024/1024 (0 for an empty file), and awaiting a resolver on which
\* no metric was chosen gives n.
C25_SizeInEachMetric ==
  [][Fulfils(Solo)
       => LET r == Reduce(task'[Solo].result.value)
              o == task'[Solo].op
              n == fileSize
          IN /\ o = "inBytes" => r = [num |-> n, den |-> 1]
             /\ o = "inKb" => r = Reduce([num |-> n, den |-> 1024])
             /\ o = "inMb" => r = Reduce([num |-> n, den |-> 1024 * 1024])
             /\ (o = "then" /\ task'[Solo].fresh) => r = [num |-> n, den |-> 1]]_vars

\* inMb() has returned 1/1024 for a file of 1024 bytes
W_C25 ==
  /\ fileSize = 1024
  /\ task[Solo].pc = "idle" /\ task[Solo].op = "inMb"
  /\ task[Solo].result = Fulfilled([num |-> 1024, den |-> 1024 * 1024])

\* C26: in the file every content chunk written by a call of appendLine comes
\* directly after the line separator written by that same call, whatever
\* other append and appendLine calls run at the same time.
C26_ContentFollowsOwnSeparator ==
  \A i \in 1 .. Len(text.chunks) :
    LET ch == text.chunks[i]
    IN (ch.op = "appendLine" /\ ch.part = "content")
         => /\ i > 1
            /\ text.chunks[i - 1] = [ch EXCEPT !.part = "EOL"]

\* C27: on one resolver, also when calls overlap, a call of inBytes(), inKb()
\* or inMb() that fulfils gives the size in its own metric: n, n/1024 and
\* n/1024/1024 for the n bytes Fs.stat reports.
C27_EachCallKeepsItsMetric ==
  [][\A c \in Callers :
       Fulfils(c)
         => LET r == Reduce(task'[c].result.value)
                o == task'[c].op
                n == fileSize
            IN /\ o = "inBytes" => r = [num |-> n, den |-> 1]
               /\ o = "inKb" => r = Reduce([num |-> n, den |-> 1024])
               /\ o = "inMb" => r = Reduce([num |-> n, den |-> 1024 * 1024])]_vars

\* C28: a caller that awaits the resolver is never left without a step that
\* settles it: as long as its promise is pending the Fs.stat it waits for is
\* under way, and once Fs.stat has returned the promise is fulfilled with the
\* size or rejected with the error of Fs.stat.
C28_AwaitAlwaysSettles ==
  \A c \in Callers :
    task[c].op = "then"
      => /\ task[c].pc # "idle" => ENABLED Settles(c)
         /\ task[c].pc = "idle" => task[c].result.state \in {"fulfilled", "rejected"}

\* C29: while a caller that created the marker of P is alive and has not
\* called unlock(P), no step of another caller's lock(P) removes the marker
\* or creates it anew, and isLocked(P) returns true.
C29_LiveHolderIsNotOverridden ==
  [][\A p \in Paths, c \in Callers :
       (c \in owners[p] /\ c \in held[p] /\ alive[ProcOf(c)])
         => /\ isLockedOutcome(p, options[c]) = "true"
            /\ \A d \in Callers \ {c} :
                 (pc[d] \in InLock /\ file[d] = p)
                   => /\ ~(marker[p] # NoMarker /\ marker'[p] = NoMarker)
                      /\ d \notin owners'[p]]_vars

\* p carries a marker that is stale under the options of every call
StaleMarker(p) == marker[p] # NoMarker /\ \A o \in Options : ~Live(p, o)

\* C30: a call of unlock(P) that finds the marker of P stale returns without
\* error and leaves the marker and the lock registry as they are.  The marker
\* it left is taken away only by the step of a later lock(P) call that
\* overrides it: the only other step that removes a marker is the last step
\* of an unlock call, which a call that meets a stale marker never reaches.
C30_UnlockLeavesStaleMarker ==
  [][/\ (/\ Calls(Solo, "unlock")
         /\ marker[file'[Solo]] # NoMarker
         /\ ~Live(file'[Solo], options'[Solo]))
          => /\ pc'[Solo] = "idle"
             /\ result'[Solo] = "ok"
             /\ marker' = marker
             /\ locks' = locks
     /\ \A p \in Paths :
          (StaleMarker(p) /\ (marker'[p] = NoMarker \/ marker'[p] < marker[p]))
            => \/ /\ op[Solo] = "lock" /\ file[Solo] = p
                  /\ pc[Solo] = "rmdir" /\ pc'[Solo] = "mkdir2"
               \/ /\ op[Solo] = "unlock" /\ file[Solo] = p
                  /\ pc[Solo] = "unlockRmdir"
     /\ (Calls(Solo, "unlock") /\ pc'[Solo] # "idle")
          => Live(file'[Solo], options'[Solo])]_vars

\* unlock has returned without error on a marker that is stale and is still
\* there, with no lock held by the process
W_C30 ==
  /\ op[Solo] = "unlock" /\ pc[Solo] = "idle" /\ result[Solo] = "ok"
  /\ StaleMarker(file[Solo])
  /\ ~locks[ProcOf(Solo)][file[Solo]].acquired

====
